---- MODULE Spec2Model ----
(***************************************************************************)
(* Model of drowsiness_yolo_pose.py: the decoding of the raw pose tensor   *)
(* (process_pose_detections), the head-versus-shoulder drowsiness rule     *)
(* (check_drowsiness) and the part of main that consumes the result.       *)
(*                                                                         *)
(* Numbers.  Scores, confidences and thresholds are integers in hundredths *)
(* (25 stands for 0.25); only their order matters to the code.  Model-     *)
(* space coordinates are integers.  A scale factor original/input_size is  *)
(* kept as the exact fraction, so int(x * scale) is the exact quotient     *)
(* x*original/input_size truncated toward zero, and a mean sum/len is the  *)
(* exact fraction, compared by cross-multiplication.                       *)
(*                                                                         *)
(* Indices.  Python index k of a row or a keypoint list is index k+1 of    *)
(* the TLA+ sequence.                                                      *)
(***************************************************************************)
EXTENDS Integers, Sequences, FiniteSets, TLC

VARIABLES
  \* ---- main / process_pose_detections -------------------------------
  pc,                  \* position of the program
  tensor,              \* outputs[0][0]: the N rows of the raw tensor
  original_width,      \* original_size[0]
  original_height,     \* original_size[1]
  input_size,          \* input_size argument (args.size)
  conf_threshold,      \* box-confidence threshold (args.conf)
  kpt_conf_threshold,  \* keypoint-confidence threshold (args.kpt_conf)
  n,                   \* rows of the tensor consumed by the filter loop
  valid_detections,    \* list built by the filter loop
  i,                   \* enumerate index of the per-detection loop
  drowsiness_detected, \* frame-level flag (local of the function)
  records,             \* per-detection locals of the loop, one per iteration
  ret_detections,      \* second component of the returned tuple
  ret_flag,            \* third component of the returned tuple
  exit_status,         \* "running", "normal" or "uncaught_exception"
  reported,            \* the count main prints, -1 before it prints
  \* ---- check_drowsiness called on its own ----------------------------
  cd_pc, cd_keypoints, cd_threshold, cd_out,
  \* ---- scaling a coordinate and scaling it back -----------------------
  rt_pc, rt_x, rt_original, rt_input_size, rt_scaled, rt_back

main_vars == <<pc, tensor, original_width, original_height, input_size,
               conf_threshold, kpt_conf_threshold, n, valid_detections, i,
               drowsiness_detected, records, ret_detections, ret_flag,
               exit_status, reported>>
cd_vars == <<cd_pc, cd_keypoints, cd_threshold, cd_out>>
rt_vars == <<rt_pc, rt_x, rt_original, rt_input_size, rt_scaled, rt_back>>
vars == <<main_vars, cd_vars, rt_vars>>

-----------------------------------------------------------------------------
(* Program constants *)

\* range(17): keypoints per detection
NumKeypoints == 17

\* base_idx = 6 + kpt_idx * 3: first keypoint column of a row
KeypointBase == 6

\* the row width the code assumes, [1, 300, 57]
RowWidth == 57

head_indices == <<0, 1, 2, 3, 4>>

shoulder_indices == <<5, 6>>

-----------------------------------------------------------------------------
(* Bounds of the model *)

\* rows in a raw tensor
MaxRows == 2

\* largest keypoint y-coordinate given to check_drowsiness on its own
MaxY == 2

\* largest input_size of the round-trip specification
MaxInputSize == 6

\* largest original image dimension of the round-trip specification
MaxOriginal == 8

-----------------------------------------------------------------------------
(* check_drowsiness *)

\* conf > kpt_conf_threshold
Confident(conf, thr) == conf > thr

\* the two collecting loops: y of every listed keypoint that is confident
RECURSIVE CollectY(_, _, _)
CollectY(keypoints, indices, thr) ==
  IF indices = <<>> THEN <<>>
  ELSE LET idx == Head(indices)
           y == keypoints[idx + 1][2]
           conf == keypoints[idx + 1][3]
       IN (IF Confident(conf, thr) THEN <<y>> ELSE <<>>)
            \o CollectY(keypoints, Tail(indices), thr)

\* sum(...)
RECURSIVE SumSeq(_)
SumSeq(s) == IF s = <<>> THEN 0 ELSE Head(s) + SumSeq(Tail(s))

\* faulty variant: the early return is taken only when both lists are empty
InsufficientBoth(head_y_coords, shoulder_y_coords) ==
  Len(head_y_coords) = 0 /\ Len(shoulder_y_coords) = 0

\* len(head_y_coords) == 0 or len(shoulder_y_coords) == 0
Insufficient(head_y_coords, shoulder_y_coords) ==
  Len(head_y_coords) = 0 \/ Len(shoulder_y_coords) = 0

\* faulty variant: strict comparison of the two means
HeadBelow(head_sum, head_len, shoulder_sum, shoulder_len) ==
  head_sum * shoulder_len > shoulder_sum * head_len

\* avg_head_y >= avg_shoulder_y with avg = sum / len, both len > 0
HeadAtOrBelow(head_sum, head_len, shoulder_sum, shoulder_len) ==
  head_sum * shoulder_len >= shoulder_sum * head_len

\* the whole function: result is the returned bool, averaged says whether the
\* two divisions were executed, raised whether a division by zero was hit
check_drowsiness(keypoints, thr) ==
  LET head_y_coords == CollectY(keypoints, head_indices, thr)
      shoulder_y_coords == CollectY(keypoints, shoulder_indices, thr)
  IN IF Insufficient(head_y_coords, shoulder_y_coords)
     THEN [result |-> FALSE, averaged |-> FALSE, raised |-> FALSE]
     ELSE IF Len(head_y_coords) = 0 \/ Len(shoulder_y_coords) = 0
     THEN [result |-> FALSE, averaged |-> FALSE, raised |-> TRUE]
     ELSE [result |-> HeadAtOrBelow(SumSeq(head_y_coords), Len(head_y_coords),
                                    SumSeq(shoulder_y_coords), Len(shoulder_y_coords)),
           averaged |-> TRUE, raised |-> FALSE]

-----------------------------------------------------------------------------
(* Scaling and clamping *)

\* faulty variant: the quotient is floored (differs from int() on negative values)
ScaleCoordFloor(x, original, size) == (x * original) \div size

\* faulty variant: the factor is input_size / original
ScaleCoordInverted(x, original, size) ==
  IF x * size >= 0 THEN (x * size) \div original
  ELSE -((-(x * size)) \div original)

\* int(x * scale) with scale = original / input_size: truncation toward zero
ScaleCoord(x, original, size) ==
  IF x * original >= 0 THEN (x * original) \div size
  ELSE -((-(x * original)) \div size)

\* max(0, v)
ClampLow(v) == IF v > 0 THEN v ELSE 0

\* min(limit, v)
ClampHigh(limit, v) == IF v < limit THEN v ELSE limit

-----------------------------------------------------------------------------
(* check_drowsiness on its own: inputs and the call *)

\* confidences in hundredths: of a keypoint that is detected well, and of one
\* that is not (equal to the default threshold 0.2)
CdConf == [high |-> 90, low |-> 20]

\* keypoint thresholds, in hundredths (0.2 is the default)
CdThresholds == {20, 50}

\* one head or shoulder keypoint: its y when it is detected well, or
\* MaxY + 1 for a keypoint that is not (its y is then the fill's)
CdOptions == 0..(MaxY + 1)

\* (x, y, conf) given to every keypoint 7..16, and the x of keypoints 0..6
CdFill == {<<0, 0, 5>>, <<9, 9, 90>>}

\* a list of 17 (x, y, conf): keypoints 0..6 from f, the others from fill
CdList(f, fill) ==
  [k \in 1..NumKeypoints |->
     IF k > 7 THEN fill
     ELSE IF f[k] <= MaxY THEN <<fill[1], f[k], CdConf.high>>
     ELSE <<fill[1], fill[2], CdConf.low>>]

CdKeypointLists == {CdList(f, fill) : f \in [1..7 -> CdOptions], fill \in CdFill}

CdNoResult == [result |-> FALSE, averaged |-> FALSE, raised |-> FALSE]

CdIdle ==
  /\ cd_pc = "idle"
  /\ cd_keypoints = <<>>
  /\ cd_threshold = 0
  /\ cd_out = CdNoResult

\* is_drowsy = check_drowsiness(keypoints, kpt_conf_threshold)
CallCheckDrowsiness ==
  /\ cd_pc = "called"
  /\ cd_out' = check_drowsiness(cd_keypoints, cd_threshold)
  /\ cd_pc' = "returned"
  /\ UNCHANGED <<cd_keypoints, cd_threshold, main_vars, rt_vars>>

-----------------------------------------------------------------------------
(* Scaling a coordinate to image space and back *)

RtIdle ==
  /\ rt_pc = "idle"
  /\ rt_x = 0
  /\ rt_original = 1
  /\ rt_input_size = 1
  /\ rt_scaled = 0
  /\ rt_back = 0

\* x' = int(x * (original / input_size)), then int(x' * (input_size / original))
ScaleThereAndBack ==
  /\ rt_pc = "start"
  /\ LET there == ScaleCoord(rt_x, rt_original, rt_input_size)
     IN /\ rt_scaled' = there
        /\ rt_back' = ScaleCoord(there, rt_input_size, rt_original)
  /\ rt_pc' = "done"
  /\ UNCHANGED <<rt_x, rt_original, rt_input_size, main_vars, cd_vars>>

-----------------------------------------------------------------------------
(* process_pose_detections: the inputs *)

\* 17 (x, y, conf): head keypoints 0..4, shoulders 5..6, the others
Profile(head, shoulder, rest) ==
  [k \in 1..NumKeypoints |->
     IF k <= 5 THEN head ELSE IF k <= 7 THEN shoulder ELSE rest]

\* one row of the tensor in the layout the code reads:
\* x1 y1 x2 y2 score class, then 17 times x y conf
MakeRow(box, score, class, kps) ==
  [c \in 1..RowWidth |->
     IF c <= 4 THEN box[c]
     ELSE IF c = 5 THEN score
     ELSE IF c = 6 THEN class
     ELSE kps[((c - 7) \div 3) + 1][((c - 7) % 3) + 1]]

\* the rows the tensors are made of (model-space, scores in hundredths):
\* head below the shoulders, box inside; head above, box partly outside;
\* no confident head keypoint, box wholly to the right; score equal to the
\* default threshold; negative coordinates, box wholly to the upper left
RowPool ==
  { MakeRow(<<0, 1, 3, 3>>, 60, 0,
            Profile(<<1, 3, 90>>, <<1, 2, 90>>, <<2, 3, 90>>)),
    MakeRow(<<-1, -3, 6, 7>>, 60, 0,
            Profile(<<1, 1, 90>>, <<3, 3, 90>>, <<1, 0, 10>>)),
    MakeRow(<<9, 1, 11, 3>>, 26, 0,
            Profile(<<1, 3, 20>>, <<1, 1, 90>>, <<0, 9, 90>>)),
    MakeRow(<<1, 1, 2, 2>>, 25, 0,
            Profile(<<3, 3, 90>>, <<1, 1, 90>>, <<0, 0, 0>>)),
    MakeRow(<<-5, -5, -1, -1>>, 40, 0,
            Profile(<<-1, -1, 90>>, <<-3, -3, 90>>, <<-1, -5, 90>>)) }

\* row widths of the tensors: the expected 57, a short row, a long row
Widths == {50, RowWidth, 60}

\* a row cut or zero-padded to width w
Resize(row, w) == [c \in 1..w |-> IF c <= Len(row) THEN row[c] ELSE 0]

\* detections[0]: up to MaxRows rows of one width
Tensors ==
  {[k \in 1..Len(rows) |-> Resize(rows[k], w)] :
     rows \in UNION {[1..len -> RowPool] : len \in 0..MaxRows}, w \in Widths}

\* (original_width, original_height, input_size)
Sizes == {<<3, 2, 2>>, <<2, 6, 4>>, <<4, 4, 4>>}

\* --conf, in hundredths (0.25 is the default)
BoxThresholds == {25, 50}

\* --kpt-conf, in hundredths (0.2 is the default)
KptThresholds == {20, 50}

-----------------------------------------------------------------------------
(* process_pose_detections: the steps *)

\* faulty variant: a row whose score equals the threshold is kept
PassesFilterAtThreshold(score, threshold) == score >= threshold

\* faulty variant: the comparison is reversed
PassesFilterBelow(score, threshold) == score < threshold

\* score > conf_threshold
PassesFilter(score, threshold) == score > threshold

\* the filter loop as a whole, for a given threshold
RECURSIVE RetainedRows(_, _)
RetainedRows(rows, threshold) ==
  IF rows = <<>> THEN <<>>
  ELSE (IF PassesFilter(Head(rows)[5], threshold) THEN <<Head(rows)>> ELSE <<>>)
         \o RetainedRows(Tail(rows), threshold)

\* detection[base_idx:base_idx+3]: a slice, shorter when the row ends early
KeypointSlice(detection, kpt_idx) ==
  LET base_idx == KeypointBase + kpt_idx * 3
      stop == IF base_idx + 3 < Len(detection) THEN base_idx + 3 ELSE Len(detection)
  IN SubSeq(detection, base_idx + 1, stop)

\* the loop body raises: unpacking detection[:4], indexing detection[5], or
\* unpacking a keypoint slice that has fewer than three values
DecodeRaises(detection) ==
  \/ Len(detection) < 4
  \/ Len(detection) < 6
  \/ \E kpt_idx \in 0..(NumKeypoints - 1) : Len(KeypointSlice(detection, kpt_idx)) # 3

\* x1, y1, x2, y2 after int(. * scale_x) and int(. * scale_y)
ScaledBox(detection, width, height, size) ==
  <<ScaleCoord(detection[1], width, size), ScaleCoord(detection[2], height, size),
    ScaleCoord(detection[3], width, size), ScaleCoord(detection[4], height, size)>>

\* x1 = max(0, x1) ... y2 = min(original_height - 1, y2)
ClampBox(box, width, height) ==
  <<ClampLow(box[1]), ClampLow(box[2]),
    ClampHigh(width - 1, box[3]), ClampHigh(height - 1, box[4])>>

\* the keypoints list built by the inner loop
ScaledKeypoints(detection, width, height, size) ==
  [k \in 1..NumKeypoints |->
     LET kpt == KeypointSlice(detection, k - 1)
     IN <<ScaleCoord(kpt[1], width, size), ScaleCoord(kpt[2], height, size), kpt[3]>>]

\* faulty variant: the flag keeps only the last verdict
AccumulateLast(flag, is_drowsy) == is_drowsy

\* drowsiness_detected or is_drowsy
Accumulate(flag, is_drowsy) == flag \/ is_drowsy

\* faulty variant: the rows are returned with the scaled and clamped box written back
ReturnedScaled(valid, recs) ==
  [k \in 1..Len(valid) |-> recs[k].box \o SubSeq(valid[k], 5, Len(valid[k]))]

\* return result_img, valid_detections, drowsiness_detected
ReturnedDetections(valid, recs) == valid

MainIdle ==
  /\ pc = "idle"
  /\ tensor = <<>>
  /\ original_width = 1
  /\ original_height = 1
  /\ input_size = 1
  /\ conf_threshold = 0
  /\ kpt_conf_threshold = 0
  /\ n = 0
  /\ valid_detections = <<>>
  /\ i = 0
  /\ drowsiness_detected = FALSE
  /\ records = <<>>
  /\ ret_detections = <<>>
  /\ ret_flag = FALSE
  /\ exit_status = "running"
  /\ reported = -1

\* main calls process_pose_detections(outputs, original_size, args.size,
\* args.conf, args.kpt_conf)
Call ==
  /\ pc = "idle"
  /\ \E t \in Tensors, size \in Sizes, ct \in BoxThresholds, kt \in KptThresholds :
       /\ tensor' = t
       /\ original_width' = size[1]
       /\ original_height' = size[2]
       /\ input_size' = size[3]
       /\ conf_threshold' = ct
       /\ kpt_conf_threshold' = kt
  /\ pc' = "filter"
  /\ UNCHANGED <<n, valid_detections, i, drowsiness_detected, records,
                 ret_detections, ret_flag, exit_status, reported, cd_vars, rt_vars>>

\* one iteration of: for detection in detections[0]
FilterStep ==
  /\ pc = "filter"
  /\ n < Len(tensor)
  /\ LET detection == tensor[n + 1]
     IN IF Len(detection) < 5
        THEN /\ pc' = "crashed"
             /\ exit_status' = "uncaught_exception"
             /\ UNCHANGED <<n, valid_detections>>
        ELSE /\ valid_detections' =
                  IF PassesFilter(detection[5], conf_threshold)
                  THEN Append(valid_detections, detection)
                  ELSE valid_detections
             /\ n' = n + 1
             /\ UNCHANGED <<pc, exit_status>>
  /\ UNCHANGED <<tensor, original_width, original_height, input_size,
                 conf_threshold, kpt_conf_threshold, i, drowsiness_detected,
                 records, ret_detections, ret_flag, reported, cd_vars, rt_vars>>

\* the filter loop is over: drowsiness_detected = False, then the scale factors
InitLocals ==
  /\ pc = "filter"
  /\ n = Len(tensor)
  /\ drowsiness_detected' = FALSE
  /\ pc' = "process"
  /\ UNCHANGED <<tensor, original_width, original_height, input_size,
                 conf_threshold, kpt_conf_threshold, n, valid_detections, i,
                 records, ret_detections, ret_flag, exit_status, reported,
                 cd_vars, rt_vars>>

\* one iteration of: for i, detection in enumerate(valid_detections)
ProcessStep ==
  /\ pc = "process"
  /\ i < Len(valid_detections)
  /\ LET detection == valid_detections[i + 1]
     IN IF DecodeRaises(detection)
        THEN /\ pc' = "crashed"
             /\ exit_status' = "uncaught_exception"
             /\ UNCHANGED <<i, records, drowsiness_detected>>
        ELSE LET scaled == ScaledBox(detection, original_width, original_height, input_size)
                 keypoints == ScaledKeypoints(detection, original_width,
                                              original_height, input_size)
                 verdict == check_drowsiness(keypoints, kpt_conf_threshold)
             IN IF verdict.raised
                THEN /\ pc' = "crashed"
                     /\ exit_status' = "uncaught_exception"
                     /\ UNCHANGED <<i, records, drowsiness_detected>>
                ELSE /\ records' = Append(records,
                          [raw |-> detection,
                           scaled |-> scaled,
                           box |-> ClampBox(scaled, original_width, original_height),
                           score |-> detection[5],
                           class_id |-> detection[6],
                           keypoints |-> keypoints,
                           is_drowsy |-> verdict.result])
                     /\ drowsiness_detected' =
                          Accumulate(drowsiness_detected, verdict.result)
                     /\ i' = i + 1
                     /\ UNCHANGED <<pc, exit_status>>
  /\ UNCHANGED <<tensor, original_width, original_height, input_size,
                 conf_threshold, kpt_conf_threshold, n, valid_detections,
                 ret_detections, ret_flag, reported, cd_vars, rt_vars>>

\* return result_img, valid_detections, drowsiness_detected
Return ==
  /\ pc = "process"
  /\ i = Len(valid_detections)
  /\ ret_detections' = ReturnedDetections(valid_detections, records)
  /\ ret_flag' = drowsiness_detected
  /\ pc' = "report"
  /\ UNCHANGED <<tensor, original_width, original_height, input_size,
                 conf_threshold, kpt_conf_threshold, n, valid_detections, i,
                 drowsiness_detected, records, exit_status, reported,
                 cd_vars, rt_vars>>

\* main: print the number of persons and the warning, save the image, end
Report ==
  /\ pc = "report"
  /\ reported' = Len(ret_detections)
  /\ exit_status' = "normal"
  /\ pc' = "exited"
  /\ UNCHANGED <<tensor, original_width, original_height, input_size,
                 conf_threshold, kpt_conf_threshold, n, valid_detections, i,
                 drowsiness_detected, records, ret_detections, ret_flag,
                 cd_vars, rt_vars>>

\* the run is over (normally or by the exception) and the program is run on
\* the next frame: nothing of the finished call is kept
NextFrame ==
  /\ pc \in {"exited", "crashed"}
  /\ pc' = "idle"
  /\ tensor' = <<>>
  /\ original_width' = 1
  /\ original_height' = 1
  /\ input_size' = 1
  /\ conf_threshold' = 0
  /\ kpt_conf_threshold' = 0
  /\ n' = 0
  /\ valid_detections' = <<>>
  /\ i' = 0
  /\ records' = <<>>
  /\ ret_detections' = <<>>
  /\ ret_flag' = FALSE
  /\ exit_status' = "running"
  /\ reported' = -1
  /\ UNCHANGED <<drowsiness_detected, cd_vars, rt_vars>>

-----------------------------------------------------------------------------
(* Specifications *)

Init == MainIdle /\ CdIdle /\ RtIdle

Next ==
  Call \/ FilterStep \/ InitLocals \/ ProcessStep \/ Return \/ Report \/ NextFrame

Spec == Init /\ [][Next]_vars

\* check_drowsiness applied to every list of keypoints and threshold
InitCD ==
  /\ MainIdle
  /\ RtIdle
  /\ cd_pc = "called"
  /\ cd_keypoints \in CdKeypointLists
  /\ cd_threshold \in CdThresholds
  /\ cd_out = CdNoResult

NextCD == CallCheckDrowsiness

SpecCD == InitCD /\ [][NextCD]_vars

\* a coordinate scaled to image space and back
InitRT ==
  /\ MainIdle
  /\ CdIdle
  /\ rt_pc = "start"
  /\ rt_input_size \in 1..MaxInputSize
  /\ rt_original \in 1..MaxOriginal
  /\ rt_x \in 0..MaxInputSize
  /\ rt_x <= rt_input_size
  /\ rt_scaled = 0
  /\ rt_back = 0

NextRT == ScaleThereAndBack

SpecRT == InitRT /\ [][NextRT]_vars

-----------------------------------------------------------------------------
(* Vocabulary of the properties *)

Abs(v) == IF v >= 0 THEN v ELSE -v

\* the listed keypoints whose confidence exceeds the threshold
ConfidentAmong(keypoints, indices, thr) ==
  {k \in indices : keypoints[k + 1][3] > thr}

RECURSIVE SumYOver(_, _)
SumYOver(keypoints, indices) ==
  IF indices = {} THEN 0
  ELSE LET k == CHOOSE m \in indices : TRUE
       IN keypoints[k + 1][2] + SumYOver(keypoints, indices \ {k})

\* mean y of the confident head keypoints >= mean y of the confident
\* shoulder keypoints, both sets non-empty
HeadMeanAtOrBelowShoulderMean(keypoints, thr) ==
  LET H == ConfidentAmong(keypoints, 0..4, thr)
      S == ConfidentAmong(keypoints, 5..6, thr)
  IN /\ H # {}
     /\ S # {}
     /\ SumYOver(keypoints, H) * Cardinality(S) >= SumYOver(keypoints, S) * Cardinality(H)

\* keypoints 7..16 and every x replaced by zeros
OnlyHeadAndShoulders(keypoints) ==
  [k \in 1..NumKeypoints |->
     IF k <= 7 THEN <<0, keypoints[k][2], keypoints[k][3]>> ELSE <<0, 0, 0>>]

\* s is a subsequence of t
RECURSIVE IsSubseq(_, _)
IsSubseq(s, t) ==
  IF s = <<>> THEN TRUE
  ELSE IF t = <<>> THEN FALSE
  ELSE IF Head(s) = Head(t) THEN IsSubseq(Tail(s), Tail(t))
  ELSE IsSubseq(s, Tail(t))

\* the rows of the tensor scoring strictly above the threshold, in order
RowsAbove(rows, threshold) ==
  LET Above(row) == row[5] > threshold
  IN SelectSeq(rows, Above)

\* q is num/den truncated toward zero (den > 0)
IsTruncation(q, num, den) ==
  /\ den * Abs(q) <= Abs(num)
  /\ Abs(num) < den * (Abs(q) + 1)
  /\ (num >= 0 => q >= 0)
  /\ (num <= 0 => q <= 0)

\* num/den rounded to the nearest integer, ties to the even one (den > 0)
RoundNearest(num, den) ==
  LET q == num \div den
      r == num % den
  IN IF 2 * r < den THEN q
     ELSE IF 2 * r > den THEN q + 1
     ELSE IF q % 2 = 0 THEN q ELSE q + 1

Returned == pc \in {"report", "exited"}

-----------------------------------------------------------------------------
(* Properties *)

C4_IndeterminateIsNormal ==
  (/\ cd_pc = "returned"
   /\ \/ ConfidentAmong(cd_keypoints, 0..4, cd_threshold) = {}
      \/ ConfidentAmong(cd_keypoints, 5..6, cd_threshold) = {})
  => (~cd_out.result /\ ~cd_out.averaged /\ ~cd_out.raised)

\* C4 witness: no confident head keypoint, a confident shoulder, and every
\* head keypoint lying below every shoulder
C4_Witness ==
  /\ cd_pc = "returned"
  /\ ConfidentAmong(cd_keypoints, 0..4, cd_threshold) = {}
  /\ ConfidentAmong(cd_keypoints, 5..6, cd_threshold) = {5, 6}
  /\ \A h \in 1..5, s \in 6..7 : cd_keypoints[h][2] > cd_keypoints[s][2]
  /\ ~cd_out.result

\* C2: the returned frame flag is true exactly when some retained detection
\* has a drowsy verdict; the flag is false when the per-detection loop starts,
\* whatever the previous frame left; no row above the threshold gives an
\* empty sequence and a false flag.
C2_FlagIsOrOfVerdicts ==
  /\ (pc = "process" =>
        /\ Len(records) = i
        /\ drowsiness_detected = (\E k \in 1..Len(records) : records[k].is_drowsy))
  /\ (Returned =>
        /\ Len(records) = Len(valid_detections)
        /\ ret_flag = (\E k \in 1..Len(valid_detections) : records[k].is_drowsy)
        /\ ((\A r \in 1..Len(tensor) : tensor[r][5] <= conf_threshold)
              => (ret_detections = <<>> /\ ret_flag = FALSE)))

\* C2 witness: two retained detections, the first drowsy and the second not
C2_Witness ==
  /\ pc = "exited"
  /\ Len(records) = 2
  /\ records[1].is_drowsy
  /\ ~records[2].is_drowsy
  /\ ret_flag

\* C3: the retained detections are exactly the rows whose value at index 4 is
\* strictly greater than the threshold, in tensor order, and the same order
\* is kept through the per-detection loop into the output.
C3_RetainedAreRowsAboveInOrder ==
  /\ (pc = "filter" =>
        valid_detections = RowsAbove(SubSeq(tensor, 1, n), conf_threshold))
  /\ (pc \in {"process", "report", "exited"} =>
        /\ valid_detections = RowsAbove(tensor, conf_threshold)
        /\ \A k \in 1..Len(records) : records[k].raw = valid_detections[k])
  /\ (Returned => ret_detections = RowsAbove(tensor, conf_threshold))

\* C3 witness: a row scoring exactly the threshold is dropped, the row after
\* it is kept
C3_Witness ==
  /\ pc = "exited"
  /\ Len(tensor) = 2
  /\ tensor[1][5] = conf_threshold
  /\ tensor[2][5] > conf_threshold
  /\ Len(ret_detections) = 1
  /\ ret_detections[1] = tensor[2]

\* C10: for one tensor and thresholds t1 <= t2 in (0,1], the detections
\* returned with t2 are no more than, and a subsequence of, those with t1.
C10_RaisingThresholdShrinks ==
  Returned =>
    /\ \A t2 \in conf_threshold..100 :
         /\ Len(RetainedRows(tensor, t2)) <= Len(ret_detections)
         /\ IsSubseq(RetainedRows(tensor, t2), ret_detections)
    /\ \A t1 \in 1..conf_threshold :
         /\ Len(ret_detections) <= Len(RetainedRows(tensor, t1))
         /\ IsSubseq(ret_detections, RetainedRows(tensor, t1))

\* C10 witness: two detections returned, one of which a higher threshold drops
C10_Witness ==
  /\ pc = "exited"
  /\ Len(ret_detections) = 2
  /\ \E t2 \in conf_threshold..100 : Len(RetainedRows(tensor, t2)) = 1

\* C5 as claimed: a tensor whose row width is not 57, with a row passing the
\* filter, ends the frame without a crash and with zero detections.
C5_MalformedWidthHandled ==
  (/\ pc \in {"exited", "crashed"}
   /\ Len(valid_detections) > 0
   /\ Len(tensor[1]) # RowWidth)
  => (exit_status = "normal" /\ reported = 0)

\* C6 as claimed: each returned record carries the scaled and clamped box
\* and the scaled keypoint coordinates.
C6_ReturnsScaledRecords ==
  Returned =>
    \A k \in 1..Len(ret_detections) :
      /\ SubSeq(ret_detections[k], 1, 4) = records[k].box
      /\ \A kp \in 1..NumKeypoints :
           /\ ret_detections[k][KeypointBase + 3 * (kp - 1) + 1] = records[k].keypoints[kp][1]
           /\ ret_detections[k][KeypointBase + 3 * (kp - 1) + 2] = records[k].keypoints[kp][2]

\* C6 amended: the returned sequence has one entry per retained detection, in
\* order, and each entry is the raw model-space row of the tensor; the scaled
\* box, the scaled keypoints and the verdict stay local to the loop.
C6_ReturnsRawRows ==
  Returned =>
    /\ Len(ret_detections) = Len(records)
    /\ \A k \in 1..Len(ret_detections) :
         /\ ret_detections[k] = records[k].raw
         /\ \E r \in 1..Len(tensor) : ret_detections[k] = tensor[r]
         /\ records[k].score = ret_detections[k][5]
         /\ records[k].class_id = ret_detections[k][6]

\* C6 witness: a returned row whose box differs from the box drawn for it
C6_Witness ==
  /\ pc = "exited"
  /\ Len(ret_detections) >= 1
  /\ SubSeq(ret_detections[1], 1, 4) # records[1].box
  /\ ret_detections[1][8] # records[1].keypoints[1][2]

\* C7 as claimed: after scaling and clamping all four box coordinates lie
\* inside the image.
C7_BoxInsideImage ==
  \A k \in 1..Len(records) :
    LET box == records[k].box
    IN /\ 0 <= box[1] /\ box[1] <= original_width - 1
       /\ 0 <= box[3] /\ box[3] <= original_width - 1
       /\ 0 <= box[2] /\ box[2] <= original_height - 1
       /\ 0 <= box[4] /\ box[4] <= original_height - 1

\* C8 as claimed: every box and keypoint coordinate is the nearest-integer
\* rounding of the coordinate times its axis scale factor.
C8_ScaledByRounding ==
  \A k \in 1..Len(records) :
    LET rec == records[k]
    IN /\ rec.scaled[1] = RoundNearest(rec.raw[1] * original_width, input_size)
       /\ rec.scaled[2] = RoundNearest(rec.raw[2] * original_height, input_size)
       /\ rec.scaled[3] = RoundNearest(rec.raw[3] * original_width, input_size)
       /\ rec.scaled[4] = RoundNearest(rec.raw[4] * original_height, input_size)
       /\ \A kp \in 1..NumKeypoints :
            /\ rec.keypoints[kp][1] =
                 RoundNearest(rec.raw[KeypointBase + 3 * (kp - 1) + 1] * original_width,
                              input_size)
            /\ rec.keypoints[kp][2] =
                 RoundNearest(rec.raw[KeypointBase + 3 * (kp - 1) + 2] * original_height,
                              input_size)

\* C8 amended: every box and keypoint coordinate is the coordinate times its
\* axis scale factor truncated toward zero, x' = int(x * scale_x) and
\* y' = int(y * scale_y), with scale_x = original_width / input_size and
\* scale_y = original_height / input_size.
C8_ScaledByTruncation ==
  \A k \in 1..Len(records) :
    LET rec == records[k]
    IN /\ IsTruncation(rec.scaled[1], rec.raw[1] * original_width, input_size)
       /\ IsTruncation(rec.scaled[2], rec.raw[2] * original_height, input_size)
       /\ IsTruncation(rec.scaled[3], rec.raw[3] * original_width, input_size)
       /\ IsTruncation(rec.scaled[4], rec.raw[4] * original_height, input_size)
       /\ \A kp \in 1..NumKeypoints :
            /\ IsTruncation(rec.keypoints[kp][1],
                            rec.raw[KeypointBase + 3 * (kp - 1) + 1] * original_width,
                            input_size)
            /\ IsTruncation(rec.keypoints[kp][2],
                            rec.raw[KeypointBase + 3 * (kp - 1) + 2] * original_height,
                            input_size)
            /\ rec.keypoints[kp][3] = rec.raw[KeypointBase + 3 * (kp - 1) + 3]

\* C8 witness: a positive and a negative coordinate whose scaled value is not
\* the nearest integer, under different scale factors on the two axes
C8_Witness ==
  /\ pc = "exited"
  /\ original_width # original_height
  /\ \E k \in 1..Len(records) : \E c \in 1..4 :
       /\ records[k].raw[c] > 0
       /\ records[k].scaled[c] #
            RoundNearest(records[k].raw[c] *
                           (IF c % 2 = 1 THEN original_width ELSE original_height),
                         input_size)
  /\ \E k \in 1..Len(records) : \E c \in 1..4 :
       /\ records[k].raw[c] < 0
       /\ records[k].scaled[c] #
            RoundNearest(records[k].raw[c] *
                           (IF c % 2 = 1 THEN original_width ELSE original_height),
                         input_size)

\* C9 as claimed: scaling x in [0, input_size] and scaling the result back
\* returns a value within 1 of x, for every pair of sizes.
C9_RoundTripWithinOne ==
  rt_pc = "done" => Abs(rt_back - rt_x) <= 1

\* C9 amended: the round trip returns x or x - 1 when the image dimension is
\* at least the model input size (scale >= 1).
C9_RoundTripWithinOneWhenEnlarging ==
  (rt_pc = "done" /\ rt_original >= rt_input_size) =>
    (rt_x - 1 <= rt_back /\ rt_back <= rt_x)

\* C9 witness: an enlarging scale under which the round trip loses one unit
C9_Witness ==
  /\ rt_pc = "done"
  /\ rt_original > rt_input_size
  /\ rt_x > 1
  /\ rt_back = rt_x - 1

====
